---------------------------- MODULE Spec2Model ----------------------------
(***************************************************************************)
(* EduCode: the line-by-line translator (EduCodeApp.parse_code), the       *)
(* execution harness (EduCodeApp.run_code, EduCodeApp.debug_code) and the  *)
(* list of recent files (EduCodeApp.add_recent_file) of src/aaaa.py.       *)
(*                                                                         *)
(* A Python str is a sequence of characters; a character is a string of    *)
(* the model.  Characters outside ASCII carry an ASCII name ("e_acute" is  *)
(* U+00E9, "a_grave" is U+00E0, "i_circ" is U+00EE, "U+1F4AD" the thought  *)
(* balloon, "U+2705" the check mark, "U+23F1" "U+FE0F" the stopwatch,      *)
(* "U+274C" the cross mark): each is one code point, as len() counts it.   *)
(***************************************************************************)
EXTENDS Integers, Sequences, FiniteSets, TLC

(***************************************************************************)
(* Python str and list primitives                                          *)
(***************************************************************************)

\* The whitespace str.strip() and str.split() remove, within one line.
Whitespace == {" ", "\t"}

\* str.isdigit() accepts these characters.
Digits == {"0", "1", "2", "3", "4", "5", "6", "7", "8", "9"}

Min(a, b) == IF a <= b THEN a ELSE b

\* s.startswith(p)
StartsWith(s, p) == Len(s) >= Len(p) /\ SubSeq(s, 1, Len(p)) = p

\* s[k:] for k >= 0
SliceFrom(s, k) == SubSeq(s, k + 1, Len(s))

\* s[k:-d] for k >= 0, d > 0
SliceMid(s, k, d) == SubSeq(s, k + 1, Len(s) - d)

\* s[:n] for n >= 0
SliceTo(s, n) == SubSeq(s, 1, Min(n, Len(s)))

MinOf(S) == CHOOSE i \in S : \A j \in S : i <= j
MaxOf(S) == CHOOSE i \in S : \A j \in S : i >= j

\* s.lstrip(chars) and s.rstrip(chars)
LStripChars(s, chars) ==
    LET keep == {i \in 1..Len(s) : s[i] \notin chars} IN
    IF keep = {} THEN <<>> ELSE SubSeq(s, MinOf(keep), Len(s))

RStripChars(s, chars) ==
    LET keep == {i \in 1..Len(s) : s[i] \notin chars} IN
    IF keep = {} THEN <<>> ELSE SubSeq(s, 1, MaxOf(keep))

\* s.strip(chars)
StripChars(s, chars) == RStripChars(LStripChars(s, chars), chars)

\* s.strip()
Strip(s) == StripChars(s, Whitespace)

\* s.find(sub) + 1: the place of the first occurrence of sub in s, 0 if none.
Find(s, sub) ==
    LET at == {i \in 1..(Len(s) - Len(sub) + 1) : SubSeq(s, i, i + Len(sub) - 1) = sub} IN
    IF at = {} THEN 0 ELSE MinOf(at)

\* s.replace(old, new): every non-overlapping occurrence, left to right.
RECURSIVE Replace(_, _, _)
Replace(s, old, new) ==
    LET i == Find(s, old) IN
    IF i = 0 THEN s
    ELSE SubSeq(s, 1, i - 1) \o new \o Replace(SliceFrom(s, i + Len(old) - 1), old, new)

\* s.split(sep): the pieces between the non-overlapping occurrences of sep,
\* left to right (one piece more than the occurrences).
RECURSIVE SplitSep(_, _)
SplitSep(s, sep) ==
    LET i == Find(s, sep) IN
    IF i = 0 THEN <<s>>
    ELSE <<SubSeq(s, 1, i - 1)>> \o SplitSep(SliceFrom(s, i + Len(sep) - 1), sep)

\* s.split(): the maximal runs of non-whitespace characters.
RECURSIVE Split(_)
Split(s) ==
    LET t == LStripChars(s, Whitespace)
        ws == {i \in 1..Len(t) : t[i] \in Whitespace}
    IN
    IF t = <<>> THEN <<>>
    ELSE IF ws = {} THEN <<t>>
    ELSE <<SubSeq(t, 1, MinOf(ws) - 1)>> \o Split(SliceFrom(t, MinOf(ws)))

\* t.isdigit()
IsDigit(t) == t # <<>> /\ \A i \in 1..Len(t) : t[i] \in Digits

\* x in parts
Contains(parts, x) == \E i \in 1..Len(parts) : parts[i] = x

\* s * n
RECURSIVE Repeat(_, _)
Repeat(s, n) == IF n <= 0 THEN <<>> ELSE s \o Repeat(s, n - 1)

\* sep.join(parts)
RECURSIVE Join(_, _)
Join(sep, parts) ==
    IF parts = <<>> THEN <<>>
    ELSE IF Len(parts) = 1 THEN parts[1]
    ELSE parts[1] \o sep \o Join(sep, Tail(parts))

\* text.splitlines(): the pieces between the line breaks, without the empty
\* piece after a line break that ends the text; the empty text has no line.
SplitLines(s) ==
    LET pieces == SplitSep(s, <<"\n">>) IN
    IF pieces[Len(pieces)] = <<>> THEN SubSeq(pieces, 1, Len(pieces) - 1) ELSE pieces

(***************************************************************************)
(* parse_code                                                              *)
(***************************************************************************)

\* The result of translating one line: the lines appended to python_lines,
\* or the exception the statement raises.
Emit(lines) == [raised |-> "none", out |-> lines]
Raise(exc)  == [raised |-> exc, out |-> <<>>]

\* python_lines before the loop
Preamble ==
    \* "# -*- coding: utf-8 -*-"
    << <<"#", " ", "-", "*", "-", " ", "c", "o", "d", "i", "n", "g", ":", " ", "u", "t", "f", "-", "8", " ", "-", "*", "-">>,
       \* "# Code g\u00e9n\u00e9r\u00e9 par EduCode"
       <<"#", " ", "C", "o", "d", "e", " ", "g", "e_acute", "n", "e_acute", "r", "e_acute", " ", "p", "a", "r", " ", "E", "d", "u", "C", "o", "d", "e">>,
       \* "import time"
       <<"i", "m", "p", "o", "r", "t", " ", "t", "i", "m", "e">>,
       \* "import math"
       <<"i", "m", "p", "o", "r", "t", " ", "m", "a", "t", "h">>,
       <<>> >>

\* indent_level = (len(line) - len(stripped)) // 4
IndentLevel(line) == (Len(line) - Len(Strip(line))) \div 4

\* indent = '    ' * indent_level
\* "    "
Indent(line) == Repeat(<<" ", " ", " ", " ">>, IndentLevel(line))

\* stripped.startswith("r\u00e9p\u00e9ter")
RuleRepeter(stripped, indent) ==
    LET parts == Split(stripped) IN
    \* "pour"
    IF Contains(parts, <<"p", "o", "u", "r">>)
    THEN IF Len(parts) < 3 THEN Raise("IndexError")
         \* "for ", " in "
         ELSE Emit(<< indent \o <<"f", "o", "r", " ">> \o parts[3] \o <<" ", "i", "n", " ">>
                      \* ":", ":"
                      \o Replace(parts[Len(parts)], <<":">>, <<>>) \o <<":">> >>)
    ELSE IF Len(parts) < 2 THEN Raise("IndexError")
    ELSE IF IsDigit(parts[2])
         \* "for _ in range(", "):"
         THEN Emit(<< indent \o <<"f", "o", "r", " ", "_", " ", "i", "n", " ", "r", "a", "n", "g", "e", "(">> \o parts[2] \o <<")", ":">> >>)
    ELSE Emit(<<>>)

\* stripped.startswith("changer") and stripped.startswith("mettre"):
\* var, val = stripped.split()[1], stripped.split()[3]
RuleChanger(stripped, indent) ==
    LET parts == Split(stripped) IN
    IF Len(parts) < 4 THEN Raise("IndexError")
    \* " += "
    ELSE Emit(<< indent \o parts[2] \o <<" ", "+", "=", " ">> \o parts[4] >>)

RuleMettre(stripped, indent) ==
    LET parts == Split(stripped) IN
    IF Len(parts) < 4 THEN Raise("IndexError")
    \* " = "
    ELSE Emit(<< indent \o parts[2] \o <<" ", "=", " ">> \o parts[4] >>)

\* stripped.startswith("incr\u00e9menter")
RuleIncrementer(stripped, indent) ==
    LET parts == Split(stripped) IN
    IF Len(parts) < 2 THEN Raise("IndexError")
    \* " += 1"
    ELSE Emit(<< indent \o parts[2] \o <<" ", "+", "=", " ", "1">> >>)

\* stripped.startswith("ajouter"): el, lst = stripped.split(" \u00e0 ")
RuleAjouter(stripped, indent) ==
    \* " \u00e0 "
    LET parts == SplitSep(stripped, <<" ", "a_grave", " ">>) IN
    IF Len(parts) # 2 THEN Raise("ValueError")
    \* ".append("
    ELSE Emit(<< indent \o parts[2] \o <<".", "a", "p", "p", "e", "n", "d", "(">>
                 \* "ajouter", ")"
                 \o Strip(Replace(parts[1], <<"a", "j", "o", "u", "t", "e", "r">>, <<>>)) \o <<")">> >>)

\* stripped.startswith("enlever"): el, lst = stripped.split(" de ")
RuleEnlever(stripped, indent) ==
    \* " de "
    LET parts == SplitSep(stripped, <<" ", "d", "e", " ">>) IN
    IF Len(parts) # 2 THEN Raise("ValueError")
    \* ".remove("
    ELSE Emit(<< indent \o parts[2] \o <<".", "r", "e", "m", "o", "v", "e", "(">>
                 \* "enlever", ")"
                 \o Strip(Replace(parts[1], <<"e", "n", "l", "e", "v", "e", "r">>, <<>>)) \o <<")">> >>)

\* stripped.startswith("quand_drapeau_clique")
RuleDrapeau(stripped, indent) ==
    Emit(<< <<>>,
            \* "if __name__ == '__main__':"
            indent \o <<"i", "f", " ", "_", "_", "n", "a", "m", "e", "_", "_", " ", "=", "=", " ", "'", "_", "_", "m", "a", "i", "n", "_", "_", "'", ":">>,
            \* "    main()"
            indent \o <<" ", " ", " ", " ", "m", "a", "i", "n", "(", ")">> >>)

\* stripped.startswith("aller_a("): x, y = stripped[8:-1].split(",")
RuleAllerA(stripped, indent) ==
    \* ","
    LET parts == SplitSep(SliceMid(stripped, 8, 1), <<",">>) IN
    IF Len(parts) # 2 THEN Raise("ValueError")
    \* "print('Aller \u00e0 position ("
    ELSE Emit(<< indent \o <<"p", "r", "i", "n", "t", "(", "'", "A", "l", "l", "e", "r", " ", "a_grave", " ", "p", "o", "s", "i", "t", "i", "o", "n", " ", "(">> \o Strip(parts[1])
                 \* ", ", ")')"
                 \o <<",", " ">> \o Strip(parts[2]) \o <<")", "'", ")">> >>)

\* stripped.startswith("pour chaque")
RulePourChaque(stripped, indent) ==
    \* " dans "
    LET parts == SplitSep(SliceFrom(stripped, 12), <<" ", "d", "a", "n", "s", " ">>) IN
    IF Len(parts) # 2 THEN Raise("ValueError")
    \* ":", ".."
    ELSE LET bounds == SplitSep(Replace(parts[2], <<":">>, <<>>), <<".", ".">>) IN
         IF Len(bounds) # 2 THEN Raise("ValueError")
         \* "for ", " in range("
         ELSE Emit(<< indent \o <<"f", "o", "r", " ">> \o parts[1] \o <<" ", "i", "n", " ", "r", "a", "n", "g", "e", "(">> \o bounds[1]
                      \* ", ", "+1):"
                      \o <<",", " ">> \o bounds[2] \o <<"+", "1", ")", ":">> >>)

\* The body of the loop of parse_code for one line: the first branch of the
\* if / elif chain whose prefix test holds decides the translation.
ParseLine(line) ==
    LET stripped == Strip(line)
        indent == Indent(line)
        One(text) == Emit(<< indent \o text >>)
    IN
    \* "dire("
    IF StartsWith(stripped, <<"d", "i", "r", "e", "(">>) THEN
        \* "dire", "print"
        One(Replace(stripped, <<"d", "i", "r", "e">>, <<"p", "r", "i", "n", "t">>))
    \* "penser("
    ELSE IF StartsWith(stripped, <<"p", "e", "n", "s", "e", "r", "(">>) THEN
        \* "print(\"\U0001f4ad ", "\")"
        One(<<"p", "r", "i", "n", "t", "(", "\"", "U+1F4AD", " ">> \o SliceMid(stripped, 7, 1) \o <<"\"", ")">>)
    \* "r\u00e9p\u00e9ter"
    ELSE IF StartsWith(stripped, <<"r", "e_acute", "p", "e_acute", "t", "e", "r">>) THEN
        RuleRepeter(stripped, indent)
    \* "si"
    ELSE IF StartsWith(stripped, <<"s", "i">>) THEN
        \* "if ", ":"
        One(<<"i", "f", " ">> \o StripChars(SliceFrom(stripped, 3), {":"}) \o <<":">>)
    \* "sinon si"
    ELSE IF StartsWith(stripped, <<"s", "i", "n", "o", "n", " ", "s", "i">>) THEN
        \* "elif ", ":"
        One(<<"e", "l", "i", "f", " ">> \o StripChars(SliceFrom(stripped, 8), {":"}) \o <<":">>)
    \* "sinon"
    ELSE IF StartsWith(stripped, <<"s", "i", "n", "o", "n">>) THEN
        \* "else:"
        One(<<"e", "l", "s", "e", ":">>)
    \* "attendre("
    ELSE IF StartsWith(stripped, <<"a", "t", "t", "e", "n", "d", "r", "e", "(">>) THEN
        \* "time.sleep(", ")"
        One(<<"t", "i", "m", "e", ".", "s", "l", "e", "e", "p", "(">> \o SliceMid(stripped, 8, 1) \o <<")">>)
    \* "variable"
    ELSE IF StartsWith(stripped, <<"v", "a", "r", "i", "a", "b", "l", "e">>) THEN
        \* "variable"
        One(Strip(Replace(stripped, <<"v", "a", "r", "i", "a", "b", "l", "e">>, <<>>)))
    \* "changer"
    ELSE IF StartsWith(stripped, <<"c", "h", "a", "n", "g", "e", "r">>) THEN
        RuleChanger(stripped, indent)
    \* "incr\u00e9menter"
    ELSE IF StartsWith(stripped, <<"i", "n", "c", "r", "e_acute", "m", "e", "n", "t", "e", "r">>) THEN
        RuleIncrementer(stripped, indent)
    \* "mettre"
    ELSE IF StartsWith(stripped, <<"m", "e", "t", "t", "r", "e">>) THEN
        RuleMettre(stripped, indent)
    \* "tant que"
    ELSE IF StartsWith(stripped, <<"t", "a", "n", "t", " ", "q", "u", "e">>) THEN
        \* "while ", ":"
        One(<<"w", "h", "i", "l", "e", " ">> \o StripChars(SliceFrom(stripped, 9), {":"}) \o <<":">>)
    \* "ajouter"
    ELSE IF StartsWith(stripped, <<"a", "j", "o", "u", "t", "e", "r">>) THEN
        RuleAjouter(stripped, indent)
    \* "enlever"
    ELSE IF StartsWith(stripped, <<"e", "n", "l", "e", "v", "e", "r">>) THEN
        RuleEnlever(stripped, indent)
    \* "liste"
    ELSE IF StartsWith(stripped, <<"l", "i", "s", "t", "e">>) THEN
        \* "liste"
        One(Strip(Replace(stripped, <<"l", "i", "s", "t", "e">>, <<>>)))
    \* "fonction"
    ELSE IF StartsWith(stripped, <<"f", "o", "n", "c", "t", "i", "o", "n">>) THEN
        \* "def ", "fonction"
        One(<<"d", "e", "f", " ">> \o Strip(Replace(stripped, <<"f", "o", "n", "c", "t", "i", "o", "n">>, <<>>)))
    \* "retourner"
    ELSE IF StartsWith(stripped, <<"r", "e", "t", "o", "u", "r", "n", "e", "r">>) THEN
        \* "return ", "retourner"
        One(<<"r", "e", "t", "u", "r", "n", " ">> \o Strip(Replace(stripped, <<"r", "e", "t", "o", "u", "r", "n", "e", "r">>, <<>>)))
    \* "quand_drapeau_clique"
    ELSE IF StartsWith(stripped, <<"q", "u", "a", "n", "d", "_", "d", "r", "a", "p", "e", "a", "u", "_", "c", "l", "i", "q", "u", "e">>) THEN
        RuleDrapeau(stripped, indent)
    \* "pause("
    ELSE IF StartsWith(stripped, <<"p", "a", "u", "s", "e", "(">>) THEN
        \* "time.sleep(", ")"
        One(<<"t", "i", "m", "e", ".", "s", "l", "e", "e", "p", "(">> \o SliceMid(stripped, 6, 1) \o <<")">>)
    \* "stopper()"
    ELSE IF StartsWith(stripped, <<"s", "t", "o", "p", "p", "e", "r", "(", ")">>) THEN
        \* "exit()"
        One(<<"e", "x", "i", "t", "(", ")">>)
    \* "stopper_tout()"
    ELSE IF StartsWith(stripped, <<"s", "t", "o", "p", "p", "e", "r", "_", "t", "o", "u", "t", "(", ")">>) THEN
        \* "os._exit(0)"
        One(<<"o", "s", ".", "_", "e", "x", "i", "t", "(", "0", ")">>)
    \* "d\u00e9placer("
    ELSE IF StartsWith(stripped, <<"d", "e_acute", "p", "l", "a", "c", "e", "r", "(">>) THEN
        \* "print('D\u00e9placement de ", " unit\u00e9s')"
        One(<<"p", "r", "i", "n", "t", "(", "'", "D", "e_acute", "p", "l", "a", "c", "e", "m", "e", "n", "t", " ", "d", "e", " ">> \o SliceMid(stripped, 8, 1) \o <<" ", "u", "n", "i", "t", "e_acute", "s", "'", ")">>)
    \* "tourner_droite("
    ELSE IF StartsWith(stripped, <<"t", "o", "u", "r", "n", "e", "r", "_", "d", "r", "o", "i", "t", "e", "(">>) THEN
        \* "print('Rotation droite de ", " degr\u00e9s')"
        One(<<"p", "r", "i", "n", "t", "(", "'", "R", "o", "t", "a", "t", "i", "o", "n", " ", "d", "r", "o", "i", "t", "e", " ", "d", "e", " ">> \o SliceMid(stripped, 15, 1) \o <<" ", "d", "e", "g", "r", "e_acute", "s", "'", ")">>)
    \* "aller_a("
    ELSE IF StartsWith(stripped, <<"a", "l", "l", "e", "r", "_", "a", "(">>) THEN
        RuleAllerA(stripped, indent)
    \* "rebondir_si_bord()"
    ELSE IF StartsWith(stripped, <<"r", "e", "b", "o", "n", "d", "i", "r", "_", "s", "i", "_", "b", "o", "r", "d", "(", ")">>) THEN
        \* "print('Rebond si bord d\u00e9tect\u00e9')"
        One(<<"p", "r", "i", "n", "t", "(", "'", "R", "e", "b", "o", "n", "d", " ", "s", "i", " ", "b", "o", "r", "d", " ", "d", "e_acute", "t", "e", "c", "t", "e_acute", "'", ")">>)
    \* "montrer()"
    ELSE IF StartsWith(stripped, <<"m", "o", "n", "t", "r", "e", "r", "(", ")">>) THEN
        \* "print('Objet visible')"
        One(<<"p", "r", "i", "n", "t", "(", "'", "O", "b", "j", "e", "t", " ", "v", "i", "s", "i", "b", "l", "e", "'", ")">>)
    \* "cacher()"
    ELSE IF StartsWith(stripped, <<"c", "a", "c", "h", "e", "r", "(", ")">>) THEN
        \* "print('Objet cach\u00e9')"
        One(<<"p", "r", "i", "n", "t", "(", "'", "O", "b", "j", "e", "t", " ", "c", "a", "c", "h", "e_acute", "'", ")">>)
    \* "changer_couleur("
    ELSE IF StartsWith(stripped, <<"c", "h", "a", "n", "g", "e", "r", "_", "c", "o", "u", "l", "e", "u", "r", "(">>) THEN
        \* "print('Changement couleur en ", "')"
        One(<<"p", "r", "i", "n", "t", "(", "'", "C", "h", "a", "n", "g", "e", "m", "e", "n", "t", " ", "c", "o", "u", "l", "e", "u", "r", " ", "e", "n", " ">> \o SliceMid(stripped, 16, 1) \o <<"'", ")">>)
    \* "jouer_son("
    ELSE IF StartsWith(stripped, <<"j", "o", "u", "e", "r", "_", "s", "o", "n", "(">>) THEN
        \* "print('Jouer son ", "')"
        One(<<"p", "r", "i", "n", "t", "(", "'", "J", "o", "u", "e", "r", " ", "s", "o", "n", " ">> \o SliceMid(stripped, 10, 1) \o <<"'", ")">>)
    \* "arreter_son()"
    ELSE IF StartsWith(stripped, <<"a", "r", "r", "e", "t", "e", "r", "_", "s", "o", "n", "(", ")">>) THEN
        \* "print('Arr\u00eat son')"
        One(<<"p", "r", "i", "n", "t", "(", "'", "A", "r", "r", "e_circ", "t", " ", "s", "o", "n", "'", ")">>)
    \* "changer_volume("
    ELSE IF StartsWith(stripped, <<"c", "h", "a", "n", "g", "e", "r", "_", "v", "o", "l", "u", "m", "e", "(">>) THEN
        \* "print('Volume chang\u00e9 \u00e0 ", "')"
        One(<<"p", "r", "i", "n", "t", "(", "'", "V", "o", "l", "u", "m", "e", " ", "c", "h", "a", "n", "g", "e_acute", " ", "a_grave", " ">> \o SliceMid(stripped, 15, 1) \o <<"'", ")">>)
    \* "capteur_distance()"
    ELSE IF StartsWith(stripped, <<"c", "a", "p", "t", "e", "u", "r", "_", "d", "i", "s", "t", "a", "n", "c", "e", "(", ")">>) THEN
        \* "distance = 0  # Valeur simul\u00e9e"
        One(<<"d", "i", "s", "t", "a", "n", "c", "e", " ", "=", " ", "0", " ", " ", "#", " ", "V", "a", "l", "e", "u", "r", " ", "s", "i", "m", "u", "l", "e_acute", "e">>)
    \* "toucher()"
    ELSE IF StartsWith(stripped, <<"t", "o", "u", "c", "h", "e", "r", "(", ")">>) THEN
        \* "toucher = False  # Valeur simul\u00e9e"
        One(<<"t", "o", "u", "c", "h", "e", "r", " ", "=", " ", "F", "a", "l", "s", "e", " ", " ", "#", " ", "V", "a", "l", "e", "u", "r", " ", "s", "i", "m", "u", "l", "e_acute", "e">>)
    \* "couleur_d\u00e9tect\u00e9e()"
    ELSE IF StartsWith(stripped, <<"c", "o", "u", "l", "e", "u", "r", "_", "d", "e_acute", "t", "e", "c", "t", "e_acute", "e", "(", ")">>) THEN
        \* "couleur = 'rouge'  # Valeur simul\u00e9e"
        One(<<"c", "o", "u", "l", "e", "u", "r", " ", "=", " ", "'", "r", "o", "u", "g", "e", "'", " ", " ", "#", " ", "V", "a", "l", "e", "u", "r", " ", "s", "i", "m", "u", "l", "e_acute", "e">>)
    \* "d\u00e9tecter_objet("
    ELSE IF StartsWith(stripped, <<"d", "e_acute", "t", "e", "c", "t", "e", "r", "_", "o", "b", "j", "e", "t", "(">>) THEN
        \* "print('D\u00e9tection objet dans ", "')"
        One(<<"p", "r", "i", "n", "t", "(", "'", "D", "e_acute", "t", "e", "c", "t", "i", "o", "n", " ", "o", "b", "j", "e", "t", " ", "d", "a", "n", "s", " ">> \o SliceMid(stripped, 15, 1) \o <<"'", ")">>)
    \* "reconna\u00eetre_parole("
    ELSE IF StartsWith(stripped, <<"r", "e", "c", "o", "n", "n", "a", "i_circ", "t", "r", "e", "_", "p", "a", "r", "o", "l", "e", "(">>) THEN
        \* "print('Reconnaissance parole dans ", "')"
        One(<<"p", "r", "i", "n", "t", "(", "'", "R", "e", "c", "o", "n", "n", "a", "i", "s", "s", "a", "n", "c", "e", " ", "p", "a", "r", "o", "l", "e", " ", "d", "a", "n", "s", " ">> \o SliceMid(stripped, 18, 1) \o <<"'", ")">>)
    \* "ia_g\u00e9n\u00e9rer_texte("
    ELSE IF StartsWith(stripped, <<"i", "a", "_", "g", "e_acute", "n", "e_acute", "r", "e", "r", "_", "t", "e", "x", "t", "e", "(">>) THEN
        \* "print('G\u00e9n\u00e9ration texte pour ", "')"
        One(<<"p", "r", "i", "n", "t", "(", "'", "G", "e_acute", "n", "e_acute", "r", "a", "t", "i", "o", "n", " ", "t", "e", "x", "t", "e", " ", "p", "o", "u", "r", " ">> \o SliceMid(stripped, 17, 1) \o <<"'", ")">>)
    \* "pour chaque"
    ELSE IF StartsWith(stripped, <<"p", "o", "u", "r", " ", "c", "h", "a", "q", "u", "e">>) THEN
        RulePourChaque(stripped, indent)
    \* "longueur("
    ELSE IF StartsWith(stripped, <<"l", "o", "n", "g", "u", "e", "u", "r", "(">>) THEN
        \* "len(", ")"
        One(<<"l", "e", "n", "(">> \o SliceMid(stripped, 9, 1) \o <<")">>)
    \* "arrondi("
    ELSE IF StartsWith(stripped, <<"a", "r", "r", "o", "n", "d", "i", "(">>) THEN
        \* "round(", ")"
        One(<<"r", "o", "u", "n", "d", "(">> \o SliceMid(stripped, 8, 1) \o <<")">>)
    \* "quand_touche_press\u00e9e("
    ELSE IF StartsWith(stripped, <<"q", "u", "a", "n", "d", "_", "t", "o", "u", "c", "h", "e", "_", "p", "r", "e", "s", "s", "e_acute", "e", "(">>) THEN
        \* "# \u00c9v\u00e9nement touche ", " press\u00e9e"
        One(<<"#", " ", "E_acute", "v", "e_acute", "n", "e", "m", "e", "n", "t", " ", "t", "o", "u", "c", "h", "e", " ">> \o SliceMid(stripped, 20, 2) \o <<" ", "p", "r", "e", "s", "s", "e_acute", "e">>)
    \* "quand_cliqu\u00e9"
    ELSE IF StartsWith(stripped, <<"q", "u", "a", "n", "d", "_", "c", "l", "i", "q", "u", "e_acute">>) THEN
        \* "# \u00c9v\u00e9nement clic souris"
        One(<<"#", " ", "E_acute", "v", "e_acute", "n", "e", "m", "e", "n", "t", " ", "c", "l", "i", "c", " ", "s", "o", "u", "r", "i", "s">>)
    ELSE
        One(stripped)

\* The loop of parse_code over lines, python_lines being acc: the first
\* statement that raises ends the call, and its exception leaves parse_code.
RECURSIVE ParseLines(_, _)
ParseLines(lines, acc) ==
    IF lines = <<>> THEN Emit(acc)
    ELSE LET r == ParseLine(Head(lines)) IN
         IF r.raised # "none" THEN Raise(r.raised)
         ELSE ParseLines(Tail(lines), acc \o r.out)

\* parse_code(code): the generated program ("\n".join(python_lines)) as
\* .text, or the exception in .raised.
parse_code(code) ==
    LET r == ParseLines(SplitLines(code), Preamble) IN
    [raised |-> r.raised,
     \* "\n"
     text   |-> IF r.raised = "none" THEN Join(<<"\n">>, r.out) ELSE <<>>]

(***************************************************************************)
(* Bounds and inputs                                                       *)
(***************************************************************************)

\* Most lines of the text in the editor.
MaxLines == 2
\* Most whitespace characters before and after the content of a line.
MaxLead == 4
MaxTrail == 1
\* Most executions (each leaves one temporary file).
MaxRuns == 2

\* Statement texts (a line without the whitespace around it).
\* "x > 0", "toucher()"
Conds == {<<"x", " ", ">", " ", "0">>, <<"t", "o", "u", "c", "h", "e", "r", "(", ")">>}
\* "1", "n"
Args == {<<"1">>, <<"n">>}

ConditionalContents ==
    \* "si ", ":"
    {<<"s", "i", " ">> \o c \o <<":">> : c \in Conds}
        \* "sinon si ", ":"
        \cup {<<"s", "i", "n", "o", "n", " ", "s", "i", " ">> \o c \o <<":">> : c \in Conds}
        \* "sinon:"
        \cup {<<"s", "i", "n", "o", "n", ":">>}

WaitContents ==
    \* "attendre(", ")", "pause(", ")"
    {<<"a", "t", "t", "e", "n", "d", "r", "e", "(">> \o a \o <<")">> : a \in Args} \cup {<<"p", "a", "u", "s", "e", "(">> \o a \o <<")">> : a \in Args}

KeywordContents ==
    \* "dire(\"Salut\")", "dire(\"dire\")"
    { <<"d", "i", "r", "e", "(", "\"", "S", "a", "l", "u", "t", "\"", ")">>, <<"d", "i", "r", "e", "(", "\"", "d", "i", "r", "e", "\"", ")">>,
      \* "variable score = 0", "variable variable_x = 1"
      <<"v", "a", "r", "i", "a", "b", "l", "e", " ", "s", "c", "o", "r", "e", " ", "=", " ", "0">>, <<"v", "a", "r", "i", "a", "b", "l", "e", " ", "v", "a", "r", "i", "a", "b", "l", "e", "_", "x", " ", "=", " ", "1">>,
      \* "liste fruits = [1]", "liste liste_a = []"
      <<"l", "i", "s", "t", "e", " ", "f", "r", "u", "i", "t", "s", " ", "=", " ", "[", "1", "]">>, <<"l", "i", "s", "t", "e", " ", "l", "i", "s", "t", "e", "_", "a", " ", "=", " ", "[", "]">>,
      \* "fonction f():", "fonction fonction_a():"
      <<"f", "o", "n", "c", "t", "i", "o", "n", " ", "f", "(", ")", ":">>, <<"f", "o", "n", "c", "t", "i", "o", "n", " ", "f", "o", "n", "c", "t", "i", "o", "n", "_", "a", "(", ")", ":">>,
      \* "retourner x", "retourner retourner_x"
      <<"r", "e", "t", "o", "u", "r", "n", "e", "r", " ", "x">>, <<"r", "e", "t", "o", "u", "r", "n", "e", "r", " ", "r", "e", "t", "o", "u", "r", "n", "e", "r", "_", "x">> }

ShapedContents ==
    \* "changer score de 1", "changer score de", "changer score de 1 2"
    { <<"c", "h", "a", "n", "g", "e", "r", " ", "s", "c", "o", "r", "e", " ", "d", "e", " ", "1">>, <<"c", "h", "a", "n", "g", "e", "r", " ", "s", "c", "o", "r", "e", " ", "d", "e">>, <<"c", "h", "a", "n", "g", "e", "r", " ", "s", "c", "o", "r", "e", " ", "d", "e", " ", "1", " ", "2">>,
      \* "mettre score \u00e0 10", "mettre score \u00e0", "mettre score \u00e0 1 0"
      <<"m", "e", "t", "t", "r", "e", " ", "s", "c", "o", "r", "e", " ", "a_grave", " ", "1", "0">>, <<"m", "e", "t", "t", "r", "e", " ", "s", "c", "o", "r", "e", " ", "a_grave">>, <<"m", "e", "t", "t", "r", "e", " ", "s", "c", "o", "r", "e", " ", "a_grave", " ", "1", " ", "0">>,
      \* "ajouter 1 \u00e0 l", "ajouter 1", "ajouter 1 \u00e0 l \u00e0 m"
      <<"a", "j", "o", "u", "t", "e", "r", " ", "1", " ", "a_grave", " ", "l">>, <<"a", "j", "o", "u", "t", "e", "r", " ", "1">>, <<"a", "j", "o", "u", "t", "e", "r", " ", "1", " ", "a_grave", " ", "l", " ", "a_grave", " ", "m">>,
      \* "enlever 1 de l", "enlever 1", "enlever 1 de l de m"
      <<"e", "n", "l", "e", "v", "e", "r", " ", "1", " ", "d", "e", " ", "l">>, <<"e", "n", "l", "e", "v", "e", "r", " ", "1">>, <<"e", "n", "l", "e", "v", "e", "r", " ", "1", " ", "d", "e", " ", "l", " ", "d", "e", " ", "m">> }

RawContents ==
    \* "x = 1", "print(x)", "signal = 3", "listes = []", "variables = 2"
    { <<"x", " ", "=", " ", "1">>, <<"p", "r", "i", "n", "t", "(", "x", ")">>, <<"s", "i", "g", "n", "a", "l", " ", "=", " ", "3">>, <<"l", "i", "s", "t", "e", "s", " ", "=", " ", "[", "]">>, <<"v", "a", "r", "i", "a", "b", "l", "e", "s", " ", "=", " ", "2">>,
      \* "changer_x = 2"
      <<"c", "h", "a", "n", "g", "e", "r", "_", "x", " ", "=", " ", "2">> }

OtherContents ==
    \* "quand_drapeau_clique:", "penser(\"Hmm\")", "r\u00e9p\u00e9ter 5 fois:"
    { <<>>, <<"q", "u", "a", "n", "d", "_", "d", "r", "a", "p", "e", "a", "u", "_", "c", "l", "i", "q", "u", "e", ":">>, <<"p", "e", "n", "s", "e", "r", "(", "\"", "H", "m", "m", "\"", ")">>, <<"r", "e_acute", "p", "e_acute", "t", "e", "r", " ", "5", " ", "f", "o", "i", "s", ":">>,
      \* "r\u00e9p\u00e9ter x fois:", "r\u00e9p\u00e9ter pour e dans l:", "incr\u00e9menter score"
      <<"r", "e_acute", "p", "e_acute", "t", "e", "r", " ", "x", " ", "f", "o", "i", "s", ":">>, <<"r", "e_acute", "p", "e_acute", "t", "e", "r", " ", "p", "o", "u", "r", " ", "e", " ", "d", "a", "n", "s", " ", "l", ":">>, <<"i", "n", "c", "r", "e_acute", "m", "e", "n", "t", "e", "r", " ", "s", "c", "o", "r", "e">>,
      \* "tant que x < 3:", "stopper_tout()", "d\u00e9placer(10)"
      <<"t", "a", "n", "t", " ", "q", "u", "e", " ", "x", " ", "<", " ", "3", ":">>, <<"s", "t", "o", "p", "p", "e", "r", "_", "t", "o", "u", "t", "(", ")">>, <<"d", "e_acute", "p", "l", "a", "c", "e", "r", "(", "1", "0", ")">>,
      \* "changer_couleur(\"rouge\")", "pour chaque i dans 1..3:"
      <<"c", "h", "a", "n", "g", "e", "r", "_", "c", "o", "u", "l", "e", "u", "r", "(", "\"", "r", "o", "u", "g", "e", "\"", ")">>, <<"p", "o", "u", "r", " ", "c", "h", "a", "q", "u", "e", " ", "i", " ", "d", "a", "n", "s", " ", "1", ".", ".", "3", ":">> }

\* The statements without effect that take an argument, NAME(ARG).
StubNames ==
    \* "d\u00e9placer", "tourner_droite", "changer_couleur", "jouer_son"
    { <<"d", "e_acute", "p", "l", "a", "c", "e", "r">>, <<"t", "o", "u", "r", "n", "e", "r", "_", "d", "r", "o", "i", "t", "e">>, <<"c", "h", "a", "n", "g", "e", "r", "_", "c", "o", "u", "l", "e", "u", "r">>, <<"j", "o", "u", "e", "r", "_", "s", "o", "n">>,
      \* "changer_volume", "d\u00e9tecter_objet", "reconna\u00eetre_parole"
      <<"c", "h", "a", "n", "g", "e", "r", "_", "v", "o", "l", "u", "m", "e">>, <<"d", "e_acute", "t", "e", "c", "t", "e", "r", "_", "o", "b", "j", "e", "t">>, <<"r", "e", "c", "o", "n", "n", "a", "i_circ", "t", "r", "e", "_", "p", "a", "r", "o", "l", "e">>,
      \* "ia_g\u00e9n\u00e9rer_texte"
      <<"i", "a", "_", "g", "e_acute", "n", "e_acute", "r", "e", "r", "_", "t", "e", "x", "t", "e">> }
\* "10", "\"a b\""
StubArgs == {<<"1", "0">>, <<"\"", "a", " ", "b", "\"">>}

\* "(", ")"
StubContents == {name \o <<"(">> \o a \o <<")">> : name \in StubNames, a \in StubArgs}

\* The 'pour chaque V dans A..B:' statements.
\* "i"
RangeVars == {<<"i">>}
\* "1", "a"
RangeStarts == {<<"1">>, <<"a">>}
\* "3", "n", "len(s[1:])"
RangeEnds == {<<"3">>, <<"n">>, <<"l", "e", "n", "(", "s", "[", "1", ":", "]", ")">>}

RangeContents ==
    \* "pour chaque ", " dans ", "..", ":"
    {<<"p", "o", "u", "r", " ", "c", "h", "a", "q", "u", "e", " ">> \o v \o <<" ", "d", "a", "n", "s", " ">> \o a \o <<".", ".">> \o b \o <<":">> :
        v \in RangeVars, a \in RangeStarts, b \in RangeEnds}

Contents ==
    ConditionalContents \cup WaitContents \cup KeywordContents \cup ShapedContents
        \cup RawContents \cup OtherContents \cup StubContents \cup RangeContents

\* A line: lead spaces, the content, trail spaces.
\* " ", " "
Pad(lead, content, trail) == Repeat(<<" ">>, lead) \o content \o Repeat(<<" ">>, trail)

OneLine == {Pad(k, c, t) : k \in 0..MaxLead, c \in Contents, t \in 0..MaxTrail}

\* The lines of the programs of several lines.
ProgramLines ==
    \* "dire(\"Salut\")", "    dire(\"Salut\")", "si x > 0:"
    { <<>>, <<"d", "i", "r", "e", "(", "\"", "S", "a", "l", "u", "t", "\"", ")">>, <<" ", " ", " ", " ", "d", "i", "r", "e", "(", "\"", "S", "a", "l", "u", "t", "\"", ")">>, <<"s", "i", " ", "x", " ", ">", " ", "0", ":">>,
      \* "changer score de", "ajouter 1", "r\u00e9p\u00e9ter x fois:"
      <<"c", "h", "a", "n", "g", "e", "r", " ", "s", "c", "o", "r", "e", " ", "d", "e">>, <<"a", "j", "o", "u", "t", "e", "r", " ", "1">>, <<"r", "e_acute", "p", "e_acute", "t", "e", "r", " ", "x", " ", "f", "o", "i", "s", ":">>,
      \* "quand_drapeau_clique:"
      <<"q", "u", "a", "n", "d", "_", "d", "r", "a", "p", "e", "a", "u", "_", "c", "l", "i", "q", "u", "e", ":">> }

RECURSIVE SeqsOf(_, _)
SeqsOf(S, n) ==
    IF n = 0 THEN {<<>>}
    ELSE {<<>>} \cup {<<x>> \o s : x \in S, s \in SeqsOf(S, n - 1)}

\* The texts the editor may hold when a translation is asked for.
Codes ==
    \* "\n"
    {Join(<<"\n">>, <<l>>) : l \in OneLine}
        \* "\n"
        \cup {Join(<<"\n">>, ls) : ls \in SeqsOf(ProgramLines, MaxLines)}

\* The texts the editor may hold when a debug run is asked for: a line of
\* more than 50 characters and a blank line among their lines.
\* "dire(\"", "ab", "\")"
LongLine == <<"d", "i", "r", "e", "(", "\"">> \o Repeat(<<"a", "b">>, 25) \o <<"\"", ")">>
DebugLines ==
    \* "dire(\"Salut\")", "    dire(\"Salut\")", "si x > 0:", "changer score de"
    { <<"d", "i", "r", "e", "(", "\"", "S", "a", "l", "u", "t", "\"", ")">>, <<" ", " ", " ", " ", "d", "i", "r", "e", "(", "\"", "S", "a", "l", "u", "t", "\"", ")">>, <<"s", "i", " ", "x", " ", ">", " ", "0", ":">>, <<"c", "h", "a", "n", "g", "e", "r", " ", "s", "c", "o", "r", "e", " ", "d", "e">>,
      \* " "
      LongLine, <<" ">> }
\* "\n"
DebugCodes == {Join(<<"\n">>, ls) : ls \in SeqsOf(DebugLines, MaxLines)}

\* The palette commands offered to insert_command (command_categories).
\* "dire(\"Salut\")", "changer_couleur(\"rouge\")"
Palette == {<<"d", "i", "r", "e", "(", "\"", "S", "a", "l", "u", "t", "\"", ")">>, <<"c", "h", "a", "n", "g", "e", "r", "_", "c", "o", "u", "l", "e", "u", "r", "(", "\"", "r", "o", "u", "g", "e", "\"", ")">>}

\* The files the dialogs of save_code and open_code may name, the text a
\* file read by open_code holds, and the number of files named in a run.
max_recent_files == 5
MaxAdds == 6
Paths == {"a.edu", "b.edu", "c.edu", "d.edu", "e.edu", "f.edu"}
\* "dire(\"Salut\")"
FileTexts == {<<"d", "i", "r", "e", "(", "\"", "S", "a", "l", "u", "t", "\"", ")">>}

\* What a child process does: it cannot be spawned, or it runs for duration
\* seconds, writes stdout and stderr and, left to end, exits with returncode.
RunTimeout == 10
DebugTimeout == 15
Durations == {1, 12, 20}
\* "Salut\n"
Stdouts == {<<>>, <<"S", "a", "l", "u", "t", "\n">>}
\* "NameError\n"
Stderrs == {<<>>, <<"N", "a", "m", "e", "E", "r", "r", "o", "r", "\n">>}
\* "[Errno 2]"
LaunchErrors == {<<"[", "E", "r", "r", "n", "o", " ", "2", "]">>}

ChildBehaviours ==
    [kind : {"launch_failed"}, error : LaunchErrors]
        \cup [kind : {"ran"}, duration : Durations, returncode : {0, 1},
              stdout : Stdouts, stderr : Stderrs]

(***************************************************************************)
(* State                                                                   *)
(***************************************************************************)

VARIABLES
    editor,       \* self.editor.toPlainText()
    translation,  \* the "Traduction Python" tab last added: shown, text
    console,      \* self.console.toPlainText()
    status,       \* the message of the status bar (written without accents)
    tmpfiles,     \* the temporary files on disk (their names, 1, 2, ...)
    program,      \* the temporary file last written: path, text
    child,        \* the child process last launched: timeout, behaviour
    raised,       \* the exception that left the last handler, or "none"
    recent_files, \* self.recent_files
    added         \* history: the paths given to add_recent_file, oldest first

vars ==
    <<editor, translation, console, status, tmpfiles, program, child, raised,
      recent_files, added>>

NoTab == [shown |-> FALSE, text |-> <<>>]
NoProgram == [path |-> 0, text |-> <<>>]
NoChild == [timeout |-> 0, behaviour |-> [kind |-> "none"]]

\* EduCodeApp.__init__
Init ==
    /\ editor = <<>>
    /\ translation = NoTab
    /\ console = <<>>
    /\ status = ""
    /\ tmpfiles = {}
    /\ program = NoProgram
    /\ child = NoChild
    /\ raised = "none"
    /\ recent_files = <<>>
    /\ added = <<>>

\* The window with a text typed into the editor.
InitTranslate ==
    /\ editor \in Codes
    /\ translation = NoTab
    /\ console = <<>>
    /\ status = ""
    /\ tmpfiles = {}
    /\ program = NoProgram
    /\ child = NoChild
    /\ raised = "none"
    /\ recent_files = <<>>
    /\ added = <<>>

\* The window with a text typed into the editor, before a debug run.
InitDebug ==
    /\ editor \in DebugCodes
    /\ translation = NoTab
    /\ console = <<>>
    /\ status = ""
    /\ tmpfiles = {}
    /\ program = NoProgram
    /\ child = NoChild
    /\ raised = "none"
    /\ recent_files = <<>>
    /\ added = <<>>

(***************************************************************************)
(* Handlers                                                                *)
(***************************************************************************)

\* insert_command(command): insertPlainText(command + "\n") at the cursor,
\* which insertions and new_file leave at the end of the text.
insert_command ==
    \E command \in Palette :
        /\ Len(SplitLines(editor)) < MaxLines
        \* "\n"
        /\ editor' = editor \o command \o <<"\n">>
        /\ raised' = "none"
        /\ UNCHANGED <<translation, console, status, tmpfiles, program, child, recent_files, added>>

\* list.remove(x): the list without the first x.
Remove(list, x) ==
    LET i == MinOf({j \in 1..Len(list) : list[j] = x}) IN
    SubSeq(list, 1, i - 1) \o SubSeq(list, i + 1, Len(list))

\* An add_recent_file that leaves a path already listed where it is.
add_recent_file_keeping(files, path) ==
    LET inserted == <<path>> \o files IN
    IF Len(inserted) > max_recent_files THEN SubSeq(inserted, 1, max_recent_files)
    ELSE inserted

\* add_recent_file(path): self.recent_files afterwards.
add_recent_file(files, path) ==
    LET removed == IF Contains(files, path) THEN Remove(files, path) ELSE files
        inserted == <<path>> \o removed
    IN IF Len(inserted) > max_recent_files THEN SubSeq(inserted, 1, max_recent_files)
       ELSE inserted

\* save_code(): the dialog names a file (a cancelled dialog changes nothing);
\* the text of the editor goes to the file, outside the state.
save_code ==
    \E path \in Paths :
        /\ Len(added) < MaxAdds
        /\ recent_files' = add_recent_file(recent_files, path)
        /\ added' = Append(added, path)
        /\ status' = "Fichier sauvegarde"
        /\ raised' = "none"
        /\ UNCHANGED <<editor, translation, console, tmpfiles, program, child>>

\* open_code(): the dialog names a file (a cancelled dialog changes nothing);
\* the editor takes the text the file holds.
open_code ==
    \E path \in Paths, text \in FileTexts :
        /\ Len(added) < MaxAdds
        /\ editor' = text
        /\ recent_files' = add_recent_file(recent_files, path)
        /\ added' = Append(added, path)
        /\ status' = "Fichier ouvert"
        /\ raised' = "none"
        /\ UNCHANGED <<translation, console, tmpfiles, program, child>>

\* new_file()
new_file ==
    /\ editor' = <<>>
    /\ status' = "Nouveau fichier cree"
    /\ raised' = "none"
    /\ UNCHANGED <<translation, console, tmpfiles, program, child, recent_files, added>>

\* translate_code(): an exception of parse_code leaves the handler before
\* the tab is added.  Each call adds a tab and makes it the current one;
\* translation is that tab.
translate_code ==
    \E py_code \in {parse_code(editor)} :
    IF py_code.raised # "none"
    THEN /\ raised' = py_code.raised
         /\ UNCHANGED <<editor, translation, console, status, tmpfiles, program, child, recent_files, added>>
    ELSE /\ translation' = [shown |-> TRUE, text |-> py_code.text]
         /\ status' = "Traduction terminee"
         /\ raised' = "none"
         /\ UNCHANGED <<editor, console, tmpfiles, program, child, recent_files, added>>

\* subprocess.run(..., capture_output=True, text=True, timeout=timeout): the
\* result, TimeoutExpired or another exception.
SubprocessRun(behaviour, timeout) ==
    IF behaviour.kind = "launch_failed"
    THEN [kind |-> "exception", message |-> behaviour.error]
    ELSE IF behaviour.duration > timeout
    THEN [kind |-> "timeout"]
    ELSE [kind |-> "completed", returncode |-> behaviour.returncode,
          stdout |-> behaviour.stdout, stderr |-> behaviour.stderr]

\* "\u23f1\ufe0f Erreur : le script a pris trop de temps."
TimeoutMessage == <<"U+23F1", "U+FE0F", " ", "E", "r", "r", "e", "u", "r", " ", ":", " ", "l", "e", " ", "s", "c", "r", "i", "p", "t", " ", "a", " ", "p", "r", "i", "s", " ", "t", "r", "o", "p", " ", "d", "e", " ", "t", "e", "m", "p", "s", ".">>
\* "\n\u2705 Code ex\u00e9cut\u00e9 avec succ\u00e8s."
SuccessMarker == <<"\n", "U+2705", " ", "C", "o", "d", "e", " ", "e", "x", "e_acute", "c", "u", "t", "e_acute", " ", "a", "v", "e", "c", " ", "s", "u", "c", "c", "e_grave", "s", ".">>
\* "\u274c Erreur \u00e0 l'ex\u00e9cution : "
ErrorPrefix == <<"U+274C", " ", "E", "r", "r", "e", "u", "r", " ", "a_grave", " ", "l", "'", "e", "x", "e_acute", "c", "u", "t", "i", "o", "n", " ", ":", " ">>

\* A harness whose plain run reports a child that could not be started with
\* the message of a timeout.
RunOutputLaunchAsTimeout(result) ==
    IF result.kind = "completed"
    THEN result.stdout \o result.stderr
             \o (IF result.returncode = 0 THEN SuccessMarker ELSE <<>>)
    ELSE TimeoutMessage

\* The try statement of run_code: output.
RunOutput(result) ==
    IF result.kind = "completed"
    THEN result.stdout \o result.stderr
             \o (IF result.returncode = 0 THEN SuccessMarker ELSE <<>>)
    ELSE IF result.kind = "timeout" THEN TimeoutMessage
    ELSE ErrorPrefix \o result.message

\* The try statement of debug_code: output.
DebugOutput(result) ==
    IF result.kind = "completed" THEN result.stdout \o result.stderr
    ELSE IF result.kind = "timeout" THEN TimeoutMessage
    ELSE ErrorPrefix \o result.message

\* str(n) for n >= 0
RECURSIVE Decimal(_)
Decimal(n) ==
    LET digit == <<"0", "1", "2", "3", "4", "5", "6", "7", "8", "9">>[(n % 10) + 1] IN
    IF n < 10 THEN <<digit>> ELSE Append(Decimal(n \div 10), digit)

\* A trace statement that takes the indent of the line it precedes.
TraceLineIndented(i, line) ==
    SubSeq(line, 1, Len(line) - Len(LStripChars(line, Whitespace)))
        \* "print('DEBUG: Ligne ", " - "
        \o <<"p", "r", "i", "n", "t", "(", "'", "D", "E", "B", "U", "G", ":", " ", "L", "i", "g", "n", "e", " ">> \o Decimal(i + 1) \o <<" ", "-", " ">>
        \* "')"
        \o SliceTo(Strip(line), 50) \o <<"'", ")">>

\* The trace statement debug_code puts before line i (counted from 0).
TraceLine(i, line) ==
    \* "print('DEBUG: Ligne ", " - ", "')"
    <<"p", "r", "i", "n", "t", "(", "'", "D", "E", "B", "U", "G", ":", " ", "L", "i", "g", "n", "e", " ">> \o Decimal(i + 1) \o <<" ", "-", " ">> \o SliceTo(Strip(line), 50) \o <<"'", ")">>

\* An instrumentation of the pieces of py_code.split("\n").
InstrumentSplit(py_code) ==
    \* "\n"
    LET lines == SplitSep(py_code, <<"\n">>)
        debug == [k \in 1..(2 * Len(lines)) |->
                     IF k % 2 = 1 THEN TraceLine((k - 1) \div 2, lines[(k + 1) \div 2])
                     ELSE lines[k \div 2]]
    \* "\n"
    IN Join(<<"\n">>, debug)

\* debug_code: the instrumented program, a trace statement before each line
\* of py_code.splitlines().
Instrument(py_code) ==
    LET lines == SplitLines(py_code)
        debug == [k \in 1..(2 * Len(lines)) |->
                     IF k % 2 = 1 THEN TraceLine((k - 1) \div 2, lines[(k + 1) \div 2])
                     ELSE lines[k \div 2]]
    \* "\n"
    IN Join(<<"\n">>, debug)

\* tempfile.NamedTemporaryFile(delete=False, ...): a name no file has.
NewPath == Cardinality(tmpfiles) + 1

\* run_code(): an exception of parse_code leaves the handler before the
\* temporary file is made; nothing removes the file afterwards.
run_code ==
    \* py_code = self.parse_code(code), evaluated once
    \E py_code \in {parse_code(editor)} :
    IF py_code.raised # "none"
    THEN /\ raised' = py_code.raised
         /\ UNCHANGED <<editor, translation, console, status, tmpfiles, program, child, recent_files, added>>
    ELSE \E behaviour \in ChildBehaviours :
            /\ Cardinality(tmpfiles) < MaxRuns
            /\ tmpfiles' = tmpfiles \cup {NewPath}
            /\ program' = [path |-> NewPath, text |-> py_code.text]
            /\ child' = [timeout |-> RunTimeout, behaviour |-> behaviour]
            /\ console' = RunOutput(SubprocessRun(behaviour, RunTimeout))
            /\ status' = "Execution terminee"
            /\ raised' = "none"
            /\ UNCHANGED <<editor, translation, recent_files, added>>

\* debug_code()
debug_code ==
    \E py_code \in {parse_code(editor)} :
    IF py_code.raised # "none"
    THEN /\ raised' = py_code.raised
         /\ UNCHANGED <<editor, translation, console, status, tmpfiles, program, child, recent_files, added>>
    ELSE \E debug \in {Instrument(py_code.text)}, behaviour \in ChildBehaviours :
            /\ Cardinality(tmpfiles) < MaxRuns
            /\ tmpfiles' = tmpfiles \cup {NewPath}
            /\ program' = [path |-> NewPath, text |-> debug]
            /\ child' = [timeout |-> DebugTimeout, behaviour |-> behaviour]
            /\ console' = DebugOutput(SubprocessRun(behaviour, DebugTimeout))
            /\ status' = "Debogage termine"
            /\ raised' = "none"
            /\ UNCHANGED <<editor, translation, recent_files, added>>

(***************************************************************************)
(* Specifications                                                          *)
(***************************************************************************)

\* The window: the palette fills the editor, the program is run or debugged.
Next == insert_command \/ new_file \/ run_code \/ debug_code

Spec == Init /\ [][Next]_vars

\* The debugger: debug_code applied to a text of the editor.
NextDebug == debug_code

SpecDebug == InitDebug /\ [][NextDebug]_vars

\* The files: the editor is saved to files and filled from files.
NextRecent == save_code \/ open_code

SpecRecent == Init /\ [][NextRecent]_vars

\* The translator: parse_code applied to a text of the editor.
NextTranslate == translate_code

SpecTranslate == InitTranslate /\ [][NextTranslate]_vars

(***************************************************************************)
(* Vocabulary of the properties                                            *)
(***************************************************************************)

\* The lines of the source and of the generated program shown in the tab.
SourceLines == SplitLines(editor)
\* "\n"
PythonLines == SplitSep(translation.text, <<"\n">>)
Body == SubSeq(PythonLines, Len(Preamble) + 1, Len(PythonLines))

\* translate_code has been run on the text of the editor.
Translated == translation.shown \/ raised # "none"

\* The leading whitespace of a source line and the indent it stands for.
LeadingCount(line) == Len(line) - Len(LStripChars(line, Whitespace))
NoTrailing(line) == RStripChars(line, Whitespace) = line
\* " "
ExpectedIndent(line) == Repeat(<<" ">>, 4 * (LeadingCount(line) \div 4))
LeadingSpaces(line) == Len(line) - Len(LStripChars(line, {" "}))

\* The generated lines expected of a source, line by line.
RECURSIVE FlatMap(_, _)
FlatMap(F(_), lines) ==
    IF lines = <<>> THEN <<>> ELSE F(Head(lines)) \o FlatMap(F, Tail(lines))

\* Every line of a non-empty source is in the family a property is about.
AllLines(P(_)) ==
    SourceLines # <<>> /\ \A i \in 1..Len(SourceLines) : P(SourceLines[i])

\* s ends with the text e.
EndsWith(s, e) == Len(s) >= Len(e) /\ SubSeq(s, Len(s) - Len(e) + 1, Len(s)) = e

\* The text of s after the prefix p.
After(s, p) == SliceFrom(s, Len(p))

(***************************************************************************)
(* C1                                                                      *)
(***************************************************************************)

\* "sinon si "
IsElif(c) == StartsWith(c, <<"s", "i", "n", "o", "n", " ", "s", "i", " ">>)
\* "sinon", "sinon si"
IsElse(c) == StartsWith(c, <<"s", "i", "n", "o", "n">>) /\ ~StartsWith(c, <<"s", "i", "n", "o", "n", " ", "s", "i">>)
\* "si "
IsIf(c) == StartsWith(c, <<"s", "i", " ">>)

ConditionalLine(line) ==
    NoTrailing(line) /\ (IsElif(Strip(line)) \/ IsElse(Strip(line)) \/ IsIf(Strip(line)))

ConditionalHeader(line) ==
    LET c == Strip(line) IN
    << ExpectedIndent(line) \o
         \* "elif ", "sinon si ", ":"
         (IF IsElif(c) THEN <<"e", "l", "i", "f", " ">> \o RStripChars(After(c, <<"s", "i", "n", "o", "n", " ", "s", "i", " ">>), {":"}) \o <<":">>
          \* "else:"
          ELSE IF IsElse(c) THEN <<"e", "l", "s", "e", ":">>
          \* "if ", "si ", ":"
          ELSE <<"i", "f", " ">> \o RStripChars(After(c, <<"s", "i", " ">>), {":"}) \o <<":">>) >>

\* C1: a source of conditional lines is translated line by line, 'sinon si C:'
\* to 'elif C:', 'sinon:' to 'else:' and 'si C:' to 'if C:', at the indent of
\* the source line; an else-if or else line never becomes an 'if' header.
C1_ConditionalPriority ==
    (Translated /\ AllLines(ConditionalLine))
        => (translation.shown /\ Body = FlatMap(ConditionalHeader, SourceLines))

(***************************************************************************)
(* C2, C3                                                                  *)
(***************************************************************************)

\* C2: whatever the executions so far (exit 0, exit non-zero, timeout, launch
\* failure), no temporary program file made by them is left on disk.
C2_NoTemporaryFileRemains == tmpfiles = {}

\* The child last launched ran past the timeout it was given.
TimedOut == child.behaviour.kind = "ran" /\ child.behaviour.duration > child.timeout

\* C3: when the child exceeds its timeout, the console reports the timeout
\* and still shows the stdout and the stderr the child had written.
C3_TimeoutKeepsPartialOutput ==
    TimedOut =>
        /\ Find(console, TimeoutMessage) # 0
        /\ Find(console, child.behaviour.stdout) # 0
        /\ Find(console, child.behaviour.stderr) # 0

(***************************************************************************)
(* C4, C5                                                                  *)
(***************************************************************************)

\* The number of occurrences of sep in s.
Occurrences(s, sep) == Len(SplitSep(s, sep)) - 1

\* A line of the 'changer', 'mettre', 'ajouter' or 'enlever' statement that
\* has not the shape of the statement.
Malformed(line) ==
    LET tokens == Split(line) IN
    /\ tokens # <<>>
    \* "changer", "mettre"
    /\ \/ tokens[1] \in {<<"c", "h", "a", "n", "g", "e", "r">>, <<"m", "e", "t", "t", "r", "e">>} /\ Len(tokens) # 4
       \* "ajouter", " \u00e0 "
       \/ tokens[1] = <<"a", "j", "o", "u", "t", "e", "r">> /\ Occurrences(Strip(line), <<" ", "a_grave", " ">>) # 1
       \* "enlever", " de "
       \/ tokens[1] = <<"e", "n", "l", "e", "v", "e", "r">> /\ Occurrences(Strip(line), <<" ", "d", "e", " ">>) # 1

NoLine(line) == <<>>

\* C4: translating a source of malformed statements raises no exception out
\* of the translation and puts no target-language line in the generated
\* program for any of them.  (The error report the translation is to give
\* has no counterpart in the program: parse_code returns the program text
\* and nothing else.)
C4_MalformedStatementRejected ==
    (Translated /\ AllLines(Malformed))
        => (raised = "none" /\ translation.shown /\ Body = FlatMap(NoLine, SourceLines))

\* C5: a source with several malformed lines is translated to its end: the
\* first malformed line does not end the translation.
C5_ErrorsCollected ==
    (Translated /\ Cardinality({i \in 1..Len(SourceLines) : Malformed(SourceLines[i])}) >= 2)
        => (raised = "none" /\ translation.shown)

(***************************************************************************)
(* C6                                                                      *)
(***************************************************************************)

\* "quand_drapeau_clique"
IsEntryMarker(line) == StartsWith(Strip(line), <<"q", "u", "a", "n", "d", "_", "d", "r", "a", "p", "e", "a", "u", "_", "c", "l", "i", "q", "u", "e">>)

\* C6: in the program generated from a source without blank lines and entry
\* markers, one line each, the line of source line i begins with exactly
\* 4 * floor(k / 4) spaces, k the leading whitespace of the source line,
\* whatever whitespace ends the source line.
C6_IndentFromLeadingWhitespace ==
    ( /\ translation.shown
      /\ Len(Body) = Len(SourceLines)
      /\ \A i \in 1..Len(SourceLines) :
            Strip(SourceLines[i]) # <<>> /\ ~IsEntryMarker(SourceLines[i]) )
        => \A i \in 1..Len(SourceLines) :
              LeadingSpaces(Body[i]) = 4 * (LeadingCount(SourceLines[i]) \div 4)

(***************************************************************************)
(* C7                                                                      *)
(***************************************************************************)

\* The characters of an identifier, and the first identifier of a text.
IdentChars ==
    { "a", "b", "c", "d", "e", "f", "g", "h", "i", "j", "k", "l", "m", "n", "o",
      "p", "q", "r", "s", "t", "u", "v", "w", "x", "y", "z", "_" }
        \cup Digits \cup {"e_acute", "a_grave", "i_circ"}

FirstWord(c) ==
    LET stop == {i \in 1..Len(c) : c[i] \notin IdentChars} IN
    IF stop = {} THEN c ELSE SubSeq(c, 1, MinOf(stop) - 1)

\* The keywords and command names that open the statement forms.
Keywords ==
    \* "dire", "penser", "r\u00e9p\u00e9ter", "si", "sinon", "attendre", "variable"
    { <<"d", "i", "r", "e">>, <<"p", "e", "n", "s", "e", "r">>, <<"r", "e_acute", "p", "e_acute", "t", "e", "r">>, <<"s", "i">>, <<"s", "i", "n", "o", "n">>, <<"a", "t", "t", "e", "n", "d", "r", "e">>, <<"v", "a", "r", "i", "a", "b", "l", "e">>,
      \* "changer", "incr\u00e9menter", "mettre", "tant", "ajouter", "enlever"
      <<"c", "h", "a", "n", "g", "e", "r">>, <<"i", "n", "c", "r", "e_acute", "m", "e", "n", "t", "e", "r">>, <<"m", "e", "t", "t", "r", "e">>, <<"t", "a", "n", "t">>, <<"a", "j", "o", "u", "t", "e", "r">>, <<"e", "n", "l", "e", "v", "e", "r">>,
      \* "liste", "fonction", "retourner", "quand_drapeau_clique", "pause"
      <<"l", "i", "s", "t", "e">>, <<"f", "o", "n", "c", "t", "i", "o", "n">>, <<"r", "e", "t", "o", "u", "r", "n", "e", "r">>, <<"q", "u", "a", "n", "d", "_", "d", "r", "a", "p", "e", "a", "u", "_", "c", "l", "i", "q", "u", "e">>, <<"p", "a", "u", "s", "e">>,
      \* "stopper", "stopper_tout", "d\u00e9placer", "tourner_droite", "aller_a"
      <<"s", "t", "o", "p", "p", "e", "r">>, <<"s", "t", "o", "p", "p", "e", "r", "_", "t", "o", "u", "t">>, <<"d", "e_acute", "p", "l", "a", "c", "e", "r">>, <<"t", "o", "u", "r", "n", "e", "r", "_", "d", "r", "o", "i", "t", "e">>, <<"a", "l", "l", "e", "r", "_", "a">>,
      \* "rebondir_si_bord", "montrer", "cacher", "changer_couleur"
      <<"r", "e", "b", "o", "n", "d", "i", "r", "_", "s", "i", "_", "b", "o", "r", "d">>, <<"m", "o", "n", "t", "r", "e", "r">>, <<"c", "a", "c", "h", "e", "r">>, <<"c", "h", "a", "n", "g", "e", "r", "_", "c", "o", "u", "l", "e", "u", "r">>,
      \* "jouer_son", "arreter_son", "changer_volume", "capteur_distance"
      <<"j", "o", "u", "e", "r", "_", "s", "o", "n">>, <<"a", "r", "r", "e", "t", "e", "r", "_", "s", "o", "n">>, <<"c", "h", "a", "n", "g", "e", "r", "_", "v", "o", "l", "u", "m", "e">>, <<"c", "a", "p", "t", "e", "u", "r", "_", "d", "i", "s", "t", "a", "n", "c", "e">>,
      \* "toucher", "couleur_d\u00e9tect\u00e9e", "d\u00e9tecter_objet", "reconna\u00eetre_parole"
      <<"t", "o", "u", "c", "h", "e", "r">>, <<"c", "o", "u", "l", "e", "u", "r", "_", "d", "e_acute", "t", "e", "c", "t", "e_acute", "e">>, <<"d", "e_acute", "t", "e", "c", "t", "e", "r", "_", "o", "b", "j", "e", "t">>, <<"r", "e", "c", "o", "n", "n", "a", "i_circ", "t", "r", "e", "_", "p", "a", "r", "o", "l", "e">>,
      \* "ia_g\u00e9n\u00e9rer_texte", "pour", "longueur", "arrondi"
      <<"i", "a", "_", "g", "e_acute", "n", "e_acute", "r", "e", "r", "_", "t", "e", "x", "t", "e">>, <<"p", "o", "u", "r">>, <<"l", "o", "n", "g", "u", "e", "u", "r">>, <<"a", "r", "r", "o", "n", "d", "i">>,
      \* "quand_touche_press\u00e9e", "quand_cliqu\u00e9"
      <<"q", "u", "a", "n", "d", "_", "t", "o", "u", "c", "h", "e", "_", "p", "r", "e", "s", "s", "e_acute", "e">>, <<"q", "u", "a", "n", "d", "_", "c", "l", "i", "q", "u", "e_acute">> }

\* A line that is no statement form: its first word is no keyword.
RawLine(line) ==
    NoTrailing(line) /\ Strip(line) # <<>> /\ FirstWord(Strip(line)) \notin Keywords

SameLine(line) == << ExpectedIndent(line) \o Strip(line) >>

\* C7: a source of lines that are no statement form (their first word is no
\* keyword, even if it begins with the letters of one) is translated to the
\* same lines, content unchanged, each at the indent of its source line.
C7_FallbackIdentity ==
    (Translated /\ AllLines(RawLine))
        => (translation.shown /\ Body = FlatMap(SameLine, SourceLines))

(***************************************************************************)
(* C8                                                                      *)
(***************************************************************************)

EntryMarkerLine(line) == NoTrailing(line) /\ IsEntryMarker(line)

\* "if __name__ == '__main__':", "    main()"
EntryGuard(line) == << <<>>, <<"i", "f", " ", "_", "_", "n", "a", "m", "e", "_", "_", " ", "=", "=", " ", "'", "_", "_", "m", "a", "i", "n", "_", "_", "'", ":">>, <<" ", " ", " ", " ", "m", "a", "i", "n", "(", ")">> >>

\* C8: each 'quand_drapeau_clique' line of a source, at any indent, is
\* translated to an empty line, the guard with no leading whitespace and
\* 'main()' with exactly four leading spaces.
C8_EntryGuardAtTopLevel ==
    (Translated /\ AllLines(EntryMarkerLine))
        => (translation.shown /\ Body = FlatMap(EntryGuard, SourceLines))

(***************************************************************************)
(* C9                                                                      *)
(***************************************************************************)

\* "(", ")"
IsCall(c, name) == StartsWith(c, name \o <<"(">>) /\ EndsWith(c, <<")">>)

\* The argument text of the call NAME(A).
Argument(c, name) == SubSeq(c, Len(name) + 2, Len(c) - 1)

WaitLine(line) ==
    \* "attendre", "pause"
    NoTrailing(line) /\ (IsCall(Strip(line), <<"a", "t", "t", "e", "n", "d", "r", "e">>) \/ IsCall(Strip(line), <<"p", "a", "u", "s", "e">>))

SleepCall(line) ==
    LET c == Strip(line)
        \* "attendre", "attendre", "pause"
        a == IF IsCall(c, <<"a", "t", "t", "e", "n", "d", "r", "e">>) THEN Argument(c, <<"a", "t", "t", "e", "n", "d", "r", "e">>) ELSE Argument(c, <<"p", "a", "u", "s", "e">>)
    \* "time.sleep(", ")"
    IN << ExpectedIndent(line) \o <<"t", "i", "m", "e", ".", "s", "l", "e", "e", "p", "(">> \o a \o <<")">> >>

\* C9: each line 'attendre(A)' or 'pause(A)' of a source is translated to
\* exactly 'time.sleep(A)' at the indent of the source line.
C9_WaitKeepsArgument ==
    (Translated /\ AllLines(WaitLine))
        => (translation.shown /\ Body = FlatMap(SleepCall, SourceLines))

(***************************************************************************)
(* C10                                                                     *)
(***************************************************************************)

KeywordLine(line) ==
    LET c == Strip(line) IN
    /\ NoTrailing(line)
    \* "dire("
    /\ \/ StartsWith(c, <<"d", "i", "r", "e", "(">>)
       \* "variable", "liste", "fonction", "retourner"
       \/ FirstWord(c) \in {<<"v", "a", "r", "i", "a", "b", "l", "e">>, <<"l", "i", "s", "t", "e">>, <<"f", "o", "n", "c", "t", "i", "o", "n">>, <<"r", "e", "t", "o", "u", "r", "n", "e", "r">>}
          \* " "
          /\ StartsWith(After(c, FirstWord(c)), <<" ">>)

KeywordRewritten(line) ==
    LET c == Strip(line)
        rest == Strip(After(c, FirstWord(c)))
    IN << ExpectedIndent(line) \o
            \* "dire(", "print", "dire"
            (IF StartsWith(c, <<"d", "i", "r", "e", "(">>) THEN <<"p", "r", "i", "n", "t">> \o After(c, <<"d", "i", "r", "e">>)
             \* "fonction", "def "
             ELSE IF FirstWord(c) = <<"f", "o", "n", "c", "t", "i", "o", "n">> THEN <<"d", "e", "f", " ">> \o rest
             \* "retourner", "return "
             ELSE IF FirstWord(c) = <<"r", "e", "t", "o", "u", "r", "n", "e", "r">> THEN <<"r", "e", "t", "u", "r", "n", " ">> \o rest
             ELSE rest) >>

\* C10: in each 'dire(', 'variable', 'liste', 'fonction' or 'retourner' line
\* of a source only the leading keyword is replaced or removed; the rest of
\* the line is in the generated line character for character.
C10_OnlyLeadingKeywordRewritten ==
    (Translated /\ AllLines(KeywordLine))
        => (translation.shown /\ Body = FlatMap(KeywordRewritten, SourceLines))

(***************************************************************************)
(* C11                                                                     *)
(***************************************************************************)

IsStub(c) == \E name \in StubNames : IsCall(c, name)
StubName(c) == CHOOSE name \in StubNames : IsCall(c, name)

StubLine(line) == NoTrailing(line) /\ IsStub(Strip(line))

\* The text of the print call of a statement, around its argument.
StubText(name) ==
    \* "d\u00e9placer", "D\u00e9placement de ", " unit\u00e9s"
    IF name = <<"d", "e_acute", "p", "l", "a", "c", "e", "r">> THEN <<<<"D", "e_acute", "p", "l", "a", "c", "e", "m", "e", "n", "t", " ", "d", "e", " ">>, <<" ", "u", "n", "i", "t", "e_acute", "s">>>>
    \* "tourner_droite", "Rotation droite de ", " degr\u00e9s"
    ELSE IF name = <<"t", "o", "u", "r", "n", "e", "r", "_", "d", "r", "o", "i", "t", "e">> THEN <<<<"R", "o", "t", "a", "t", "i", "o", "n", " ", "d", "r", "o", "i", "t", "e", " ", "d", "e", " ">>, <<" ", "d", "e", "g", "r", "e_acute", "s">>>>
    \* "changer_couleur", "Changement couleur en "
    ELSE IF name = <<"c", "h", "a", "n", "g", "e", "r", "_", "c", "o", "u", "l", "e", "u", "r">> THEN <<<<"C", "h", "a", "n", "g", "e", "m", "e", "n", "t", " ", "c", "o", "u", "l", "e", "u", "r", " ", "e", "n", " ">>, <<>> >>
    \* "jouer_son", "Jouer son "
    ELSE IF name = <<"j", "o", "u", "e", "r", "_", "s", "o", "n">> THEN <<<<"J", "o", "u", "e", "r", " ", "s", "o", "n", " ">>, <<>> >>
    \* "changer_volume", "Volume chang\u00e9 \u00e0 "
    ELSE IF name = <<"c", "h", "a", "n", "g", "e", "r", "_", "v", "o", "l", "u", "m", "e">> THEN <<<<"V", "o", "l", "u", "m", "e", " ", "c", "h", "a", "n", "g", "e_acute", " ", "a_grave", " ">>, <<>> >>
    \* "d\u00e9tecter_objet", "D\u00e9tection objet dans "
    ELSE IF name = <<"d", "e_acute", "t", "e", "c", "t", "e", "r", "_", "o", "b", "j", "e", "t">> THEN <<<<"D", "e_acute", "t", "e", "c", "t", "i", "o", "n", " ", "o", "b", "j", "e", "t", " ", "d", "a", "n", "s", " ">>, <<>> >>
    \* "reconna\u00eetre_parole", "Reconnaissance parole dans "
    ELSE IF name = <<"r", "e", "c", "o", "n", "n", "a", "i_circ", "t", "r", "e", "_", "p", "a", "r", "o", "l", "e">> THEN <<<<"R", "e", "c", "o", "n", "n", "a", "i", "s", "s", "a", "n", "c", "e", " ", "p", "a", "r", "o", "l", "e", " ", "d", "a", "n", "s", " ">>, <<>> >>
    \* "G\u00e9n\u00e9ration texte pour "
    ELSE <<<<"G", "e_acute", "n", "e_acute", "r", "a", "t", "i", "o", "n", " ", "t", "e", "x", "t", "e", " ", "p", "o", "u", "r", " ">>, <<>> >>

StubPrint(line) ==
    LET c == Strip(line)
        name == StubName(c)
    \* "print('"
    IN << ExpectedIndent(line) \o <<"p", "r", "i", "n", "t", "(", "'">> \o StubText(name)[1] \o Argument(c, name)
            \* "')"
            \o StubText(name)[2] \o <<"'", ")">> >>

\* C11: each statement NAME(ARG) of a source of movement, appearance, sound
\* and AI statements is translated, without error, to one print call whose
\* text holds exactly ARG, the characters between '(' and the last ')'.
C11_StubEmbedsArgument ==
    (Translated /\ AllLines(StubLine))
        => (translation.shown /\ Body = FlatMap(StubPrint, SourceLines))

(***************************************************************************)
(* C12                                                                     *)
(***************************************************************************)

NoEntryMarker == \A i \in 1..Len(SourceLines) : ~IsEntryMarker(SourceLines[i])

\* C12: the program generated from a source of n lines has at least one
\* line for each source line after the preamble, and exactly the lines of
\* the preamble followed by n lines when no source line is an entry marker;
\* blank lines and 'répéter' lines of any form count.
C12_OneBlockPerSourceLine ==
    translation.shown
        => /\ Len(Body) >= Len(SourceLines)
           /\ NoEntryMarker
                => /\ SubSeq(PythonLines, 1, Len(Preamble)) = Preamble
                   /\ Len(Body) = Len(SourceLines)

(***************************************************************************)
(* C15                                                                     *)
(***************************************************************************)

\* The modules the translation rules refer to.
\* "time", "math", "os"
Modules == {<<"t", "i", "m", "e">>, <<"m", "a", "t", "h">>, <<"o", "s">>}

\* A line of the generated program refers to module m.
\* "."
References(m) == \E i \in 1..Len(Body) : Find(Body[i], m \o <<".">>) # 0

\* The preamble of the generated program imports module m.
Imported(m) ==
    \* "import "
    \E i \in 1..Min(Len(Preamble), Len(PythonLines)) : PythonLines[i] = <<"i", "m", "p", "o", "r", "t", " ">> \o m

\* C15: every generated program begins with the same preamble (encoding
\* declaration, generated-by comment, imports, blank line), and the preamble
\* imports every module a generated line refers to: time for a sleep, os
\* for the hard exit of 'stopper_tout()'.
C15_PreambleImportsModules ==
    translation.shown
        => /\ Len(PythonLines) >= Len(Preamble)
           /\ SubSeq(PythonLines, 1, Len(Preamble)) = Preamble
           \* "# -*- coding:"
           /\ StartsWith(PythonLines[1], <<"#", " ", "-", "*", "-", " ", "c", "o", "d", "i", "n", "g", ":">>)
           \* "#"
           /\ StartsWith(PythonLines[2], <<"#">>)
           \* "import "
           /\ \A i \in 3..(Len(Preamble) - 1) : StartsWith(PythonLines[i], <<"i", "m", "p", "o", "r", "t", " ">>)
           /\ PythonLines[Len(Preamble)] = <<>>
           /\ \A m \in Modules : References(m) => Imported(m)

(***************************************************************************)
(* C16                                                                     *)
(***************************************************************************)

\* The line is 'pour chaque V dans A..B:' after its indent, for a variable
\* and bounds of the source.
\* "pour chaque ", " dans ", "..", ":"
IsRange(c, v, a, b) == c = <<"p", "o", "u", "r", " ", "c", "h", "a", "q", "u", "e", " ">> \o v \o <<" ", "d", "a", "n", "s", " ">> \o a \o <<".", ".">> \o b \o <<":">>

RangeLine(line) ==
    /\ NoTrailing(line)
    /\ \E v \in RangeVars, a \in RangeStarts, b \in RangeEnds : IsRange(Strip(line), v, a, b)

RangeLoop(line) ==
    LET sel == CHOOSE t \in RangeVars \X RangeStarts \X RangeEnds :
                   IsRange(Strip(line), t[1], t[2], t[3])
    \* "for ", " in range("
    IN << ExpectedIndent(line) \o <<"f", "o", "r", " ">> \o sel[1] \o <<" ", "i", "n", " ", "r", "a", "n", "g", "e", "(">> \o sel[2]
            \* ", ", "+1):"
            \o <<",", " ">> \o sel[3] \o <<"+", "1", ")", ":">> >>

\* C16: each line 'pour chaque V dans A..B:' of a source of such lines is
\* translated to exactly 'for V in range(A, B+1):' at the same indent.
C16_InclusiveRange ==
    (Translated /\ AllLines(RangeLine))
        => (translation.shown /\ Body = FlatMap(RangeLoop, SourceLines))

(***************************************************************************)
(* C13                                                                     *)
(***************************************************************************)

\* The child of the last run was started.
Ran == child.behaviour.kind = "ran"

\* The child of the last run ended within its timeout.
Completed == Ran /\ child.behaviour.duration <= child.timeout

\* C13: after a plain run or a debug run whose child ended within the
\* timeout, the console shows the stdout and the stderr of the child,
\* followed by the success marker exactly when the exit code is 0; after a
\* non-zero exit, a timeout or a child that could not be started the console
\* holds no success marker.
C13_SuccessMarkerIffExitZero ==
    /\ Completed
         => console = child.behaviour.stdout \o child.behaviour.stderr
                        \o (IF child.behaviour.returncode = 0 THEN SuccessMarker ELSE <<>>)
    /\ (child # NoChild /\ ~(Completed /\ child.behaviour.returncode = 0))
         => Find(console, SuccessMarker) = 0

(***************************************************************************)
(* C17                                                                     *)
(***************************************************************************)

LaunchFailed == child.behaviour.kind = "launch_failed"

\* What the console shows for the children that run and exit non-zero.
NonZeroOutputs ==
    {b.stdout \o b.stderr : b \in {c \in ChildBehaviours : c.kind = "ran" /\ c.returncode # 0}}

\* A step of run_code or debug_code that starts a child.
RunStep == tmpfiles' # tmpfiles

Debugged == program.path # 0

\* The generated program of the editor: the lines parse_code appended, and
\* the lines of its text as splitlines() counts them (without the empty
\* line after a line break that ends the text).
\* "\n"
EmittedLines == SplitSep(parse_code(editor).text, <<"\n">>)
GeneratedLines == SplitLines(parse_code(editor).text)

\* The lines of the instrumented program.
\* "\n"
InstrumentedLines == SplitSep(program.text, <<"\n">>)

\* At most 50 characters of a line, without the whitespace around it.
Preview(line) ==
    LET c == Strip(line) IN SubSeq(c, 1, IF Len(c) > 50 THEN 50 ELSE Len(c))

\* t is the trace statement that names index k and the preview of line.
IsTrace(t, k, line) ==
    \* "print('DEBUG: Ligne ", " - ", "')"
    t = <<"p", "r", "i", "n", "t", "(", "'", "D", "E", "B", "U", "G", ":", " ", "L", "i", "g", "n", "e", " ">> \o Decimal(k) \o <<" ", "-", " ">> \o Preview(line) \o <<"'", ")">>

\* inst has two lines for each line of orig: the trace of line k, then
\* line k unchanged.
TwoPerLine(orig, inst) ==
    /\ Len(inst) = 2 * Len(orig)
    /\ \A k \in 1..Len(orig) :
          /\ IsTrace(inst[2 * k - 1], k, orig[k])
          /\ inst[2 * k] = orig[k]

\* C14, as claimed: the instrumented program has two lines for each of the
\* n lines of the generated program, the trace that names index k and at
\* most 50 characters of line k, then line k unchanged.
C14_TwoLinesPerEmittedLine ==
    Debugged => \A orig \in {EmittedLines}, inst \in {InstrumentedLines} : TwoPerLine(orig, inst)

\* C14, amended: the same for the n lines of the text of the generated
\* program as splitlines() counts them; an empty line that ends the
\* generated program is not among them.
C14_TwoLinesPerTextLine ==
    Debugged => \A orig \in {GeneratedLines}, inst \in {InstrumentedLines} : TwoPerLine(orig, inst)

\* A debug run on a generated program that ends with an empty line and has
\* a line of more than 50 characters.
C14_Witness ==
    /\ Debugged
    /\ Len(EmittedLines) > Len(GeneratedLines)
    /\ \E k \in 1..Len(GeneratedLines) : Len(Strip(GeneratedLines[k])) > 50

(***************************************************************************)
(* C18                                                                     *)
(***************************************************************************)

\* Line k of the generated program orig is a block header and line k + 1 is
\* indented under it.
HeaderAndBody(orig, k) ==
    \* ":"
    /\ EndsWith(orig[k], <<":">>)
    /\ LeadingCount(orig[k + 1]) > LeadingCount(orig[k])

\* C18: every trace statement of the instrumented program starts at column
\* 0; where a block header of the generated program is followed by an
\* indented line, a trace statement at column 0 stands between the two.
C18_TraceAtColumnZero ==
    Debugged =>
        \A orig \in {GeneratedLines}, inst \in {InstrumentedLines} :
            \* "print('DEBUG: "
            /\ \A j \in 1..Len(inst) : j % 2 = 1 => StartsWith(inst[j], <<"p", "r", "i", "n", "t", "(", "'", "D", "E", "B", "U", "G", ":", " ">>)
            /\ \A k \in 1..(Len(orig) - 1) :
                  (HeaderAndBody(orig, k) /\ 2 * k + 2 <= Len(inst))
                     => /\ inst[2 * k] = orig[k]
                        /\ LeadingCount(inst[2 * k + 1]) = 0
                        /\ IsTrace(inst[2 * k + 1], k + 1, orig[k + 1])
                        /\ inst[2 * k + 2] = orig[k + 1]

\* A debug run on a generated program with a block header followed by an
\* indented line.
C18_Witness ==
    /\ Debugged
    /\ \E orig \in {GeneratedLines} : \E k \in 1..(Len(orig) - 1) : HeaderAndBody(orig, k)

(***************************************************************************)
(* C19                                                                     *)
(***************************************************************************)

\* The places of path p in the history, and the last one.
Uses(p) == {i \in 1..Len(added) : added[i] = p}
LastUse(p) == MaxOf(Uses(p))

\* The paths named so far.
Used == {added[i] : i \in 1..Len(added)}

NoDuplicate(list) == \A i, j \in 1..Len(list) : list[i] = list[j] => i = j

\* C19: recent_files has no path twice and at most 5 paths; its first path
\* is the one added last; its paths are the ones used last, in the order
\* of their last use, the latest first.
C19_RecentFilesByLastUse ==
    /\ NoDuplicate(recent_files)
    /\ Len(recent_files) <= 5
    /\ Len(recent_files) = Min(5, Cardinality(Used))
    /\ added # <<>> => recent_files[1] = added[Len(added)]
    /\ \A i \in 1..Len(recent_files) : recent_files[i] \in Used
    /\ \A i \in 1..(Len(recent_files) - 1) :
          LastUse(recent_files[i]) > LastUse(recent_files[i + 1])
    /\ \A p \in Used :
          (\A i \in 1..Len(recent_files) : recent_files[i] # p)
             => \A i \in 1..Len(recent_files) : LastUse(recent_files[i]) > LastUse(p)

\* Six files have been named, each once: the list is full and the file
\* named first has left it.
C19_Witness ==
    /\ Len(recent_files) = 5
    /\ Cardinality(Used) = 6
    /\ \A i \in 1..Len(recent_files) : recent_files[i] # added[1]
=============================================================================
